---- MODULE Spec2Model ----
(***************************************************************************)
(* Model of protopipe/scripts/write_dl2.py: main() builds the list of      *)
(* input files, loads one regressor and one classifier per camera type,    *)
(* then for every event of every file fuses the per-telescope energy and   *)
(* score estimates (intensity weighted) and appends one row to the table   *)
(* reco_events.  A SIGINT handler sets a flag that is read after every     *)
(* event and after every file.                                             *)
(*                                                                         *)
(* Floats are modelled as exact fractions <<numerator, denominator>>; the  *)
(* fraction <<0, 0>> is NaN (numpy's result of 0.0 / 0).  The position of  *)
(* main() is pc, named after the source line about to be executed.         *)
(***************************************************************************)
EXTENDS Integers, Sequences, FiniteSets, TLC

\* ---------------------------------------------------------------- bounds
\* files present in indir, named 1..NumFiles
NumFiles == 2
\* entries of args.infile_list
MaxPatterns == 2
\* events the sources yield in one run
MaxEvents == 2
\* moments.intensity of a cleaned image ranges over 1..MaxIntensity
MaxIntensity == 2
\* telescopes of the subarray, 1..NumTels
NumTels == 2

Files == 1..NumFiles
TelIds == 1..NumTels
CamIds == {"LSTCam", "NectarCam"}
\* the values of args.cam_ids the runs are started with
CamIdLists == {CamIds, {"LSTCam"}}

\* ---------------------------------------------------------------- floats
NaN == <<0, 0>>
Rat(n) == <<n, 1>>
IsNaN(r) == r[2] = 0
\* equality of two floats by value (NaN compared by kind)
Eq(a, b) == IF IsNaN(a) \/ IsNaN(b) THEN IsNaN(a) /\ IsNaN(b)
            ELSE a[1] * b[2] = b[1] * a[2]
Floor(r) == IF IsNaN(r) THEN 0 ELSE r[1] \div r[2]
Abs(x) == IF x < 0 THEN -x ELSE x

\* np.log10(x) is kept symbolic: the models below read its argument
Log10(r) == <<"log10", r>>

\* np.sum(a * b) and sum(a) over arrays (sequences) of equal length
RECURSIVE SumProd(_, _)
SumProd(a, b) == IF a = <<>> THEN 0
                 ELSE Head(a) * Head(b) + SumProd(Tail(a), Tail(b))
RECURSIVE Sum(_)
Sum(a) == IF a = <<>> THEN 0 ELSE Head(a) + Sum(Tail(a))

\* np.zeros(n)
Zeros(n) == [j \in 1..n |-> 0]

\* np.sum(weight_tel * value_tel) / sum(weight_tel): numpy division, a zero
\* total weight gives NaN (0.0 / 0) and no exception
\* (variant: the plain mean, the weights ignored)
Fuse_unweighted(weight_tel, value_tel) == <<Sum(value_tel), Len(value_tel)>>
Fuse(weight_tel, value_tel) == <<SumProd(weight_tel, value_tel), Sum(weight_tel)>>

\* ---------------------------------------------------------------- file list
RECURSIVE Insert(_, _)
Insert(x, s) == IF s = <<>> THEN <<x>>
                ELSE IF x <= Head(s) THEN <<x>> \o s
                ELSE <<Head(s)>> \o Insert(x, Tail(s))
RECURSIVE InsertionSort(_)
InsertionSort(s) == IF s = <<>> THEN <<>> ELSE Insert(Head(s), InsertionSort(Tail(s)))

\* filenamelist.sort() (variant: the list left as the globs returned it)
SortFiles_none(s) == s
SortFiles(s) == InsertionSort(s)

\* the orders glob() may return the files matched by one pattern
Orders(S) == {s \in [1..Cardinality(S) -> S] : \A a, b \in 1..Cardinality(S) : a # b => s[a] # s[b]}

\* a pattern of infile_list is identified with the set of files it matches
Patterns == SUBSET Files
InfileLists == UNION {[1..n -> Patterns] : n \in 0..MaxPatterns}

\* every result of the loop "for f in infile_list: filenamelist += glob(..)"
RECURSIVE Globbed(_)
Globbed(l) == IF l = <<>> THEN {<<>>}
              ELSE {g \o rest : g \in Orders(Head(l)), rest \in Globbed(Tail(l))}

IsSorted(s) == \A a, b \in 1..Len(s) : a < b => s[a] <= s[b]

\* ---------------------------------------------------------------- subarray
\* event.inst.subarray.tel[tel_id].camera.cam_id
CamOf(tel_id) == IF tel_id = 1 THEN "LSTCam" ELSE "NectarCam"
ClassOf(tel_id) == IF tel_id = 1 THEN "LST" ELSE IF tel_id = 2 THEN "MST" ELSE "SST"

\* ---------------------------------------------------------------- events
\* moments of one telescope (intensity, width, length, skewness, kurtosis)
\* and its impact parameter
Moments(tel_id, intensity) ==
    [tel_id |-> tel_id, intensity |-> intensity, width |-> tel_id,
     length |-> 2, skewness |-> 1, kurtosis |-> 3, impact |-> 10 * tel_id]

\* hillas_dict as the sequence of its items in key order
RECURSIVE HillasDicts(_)
HillasDicts(t) ==
    IF t > NumTels THEN {<<>>}
    ELSE LET rest == HillasDicts(t + 1)
         IN rest \cup {<<Moments(t, w)>> \o r : w \in 1..MaxIntensity, r \in rest}

\* the hillas_dict of an event seen by every telescope with intensity 1
UnitHillas == [t \in 1..NumTels |-> Moments(t, 1)]

CountClass(hillas, c) == Cardinality({j \in 1..Len(hillas) : ClassOf(hillas[j].tel_id) = c})

\* the tuple yielded by preper.prepare_event for the k-th event of a file
Event(file, k, has_hillas, hillas) ==
    [obs_id |-> file, event_id |-> k,
     tels_with_data |-> NumTels,
     has_hillas |-> has_hillas, hillas |-> hillas,
     n_tels |-> [c \in {"LST", "MST", "SST"} |-> CountClass(hillas, c)],
     mc_energy |-> Rat(10 * file + k), mc_az |-> 0, mc_alt |-> 70 + k,
     mc_core_x |-> Rat(100 * file + k), mc_core_y |-> Rat(200 * file + k),
     run_array_direction |-> <<0, 70>>,
     reco_az |-> 0, reco_alt |-> 68 + file,
     h_max |-> Rat(1000 * k), reco_core_x |-> Rat(300 * file + k),
     reco_core_y |-> Rat(400 * file + k)]

NoEvent == Event(0, 0, FALSE, <<>>)

\* astropy angular_separation, for two directions on one meridian
angular_separation(az1, alt1, az2, alt2) ==
    IF az1 = az2 THEN Rat(Abs(alt1 - alt2)) ELSE NaN

\* ---------------------------------------------------------------- models
\* features_img of the energy regressor (lines 177-183)
RegressorFeatures(moments, h_max) ==
    <<Log10(Rat(moments.intensity)), Log10(Rat(moments.impact)),
      moments.width, moments.length, h_max>>

\* features_img of the classifier (lines 197-204)
ClassifierFeatures(reco_e, moments, h_max) ==
    <<Log10(reco_e), moments.width, moments.length,
      moments.skewness, moments.kurtosis, h_max>>

\* model.predict([features_img]) of the regressor of one camera type
Predict(cam_id, f) ==
    1 + ((f[1][2][1] + f[3] + (IF cam_id = "LSTCam" THEN 0 ELSE 1)) % 3)

\* model.decision_function([features_img]) of the classifier of one camera type
DecisionFunction(cam_id, f) ==
    ((Floor(f[1][2]) + 2 * f[2] + (IF cam_id = "LSTCam" THEN 1 ELSE 0)) % 3) - 1

\* ---------------------------------------------------------------- table row
\* class RecoEvent: the defaults of the columns
RecoEvent ==
    [obs_id |-> -1, event_id |-> -1, NTels_trig |-> 0, NTels_reco |-> 0,
     NTels_reco_lst |-> 0, NTels_reco_mst |-> 0, NTels_reco_sst |-> 0,
     mc_energy |-> NaN, reco_energy |-> NaN, reco_alt |-> NaN, reco_az |-> NaN,
     offset |-> NaN, xi |-> NaN, ErrEstPos |-> NaN, ErrEstDir |-> NaN,
     gammaness |-> NaN, success |-> FALSE, score |-> NaN, h_max |-> NaN,
     reco_core_x |-> NaN, reco_core_y |-> NaN, mc_core_x |-> NaN, mc_core_y |-> NaN]

VARIABLES
    pc,               \* position of main()
    filenamelist,     \* [bound |-> BOOLEAN, v |-> sequence of file names]
    regressor,        \* keys of regressor.model_dict
    classifier,       \* keys of classifier.model_dict
    exit_status,      \* exit status of the process, -1 while it runs
    error,            \* the uncaught exception that ended the run, or "none"
    reported,         \* "no files found" was printed
    setup_done,       \* cutflows, models, output file and table exist
    i,                \* index of the current file (1-based)
    k,                \* events yielded so far by the current source
    event,            \* the event being processed
    xi, offset,       \* the angular quantities of the event
    idx,              \* telescopes handled by the running loop
    energy_tel, score_tel, weight_tel,
    features_img,     \* [kind |-> "none" | "reg" | "clf", v |-> the vector]
    reco_energy, score,
    reco_event,       \* reco_table.row, the row being filled
    reco_table,       \* the rows appended so far
    flushed,          \* rows written out by reco_table.flush()
    stop,             \* signal_handler.stop
    nFetched          \* events yielded by prepare_event in this run

vars == <<pc, filenamelist, regressor, classifier, exit_status,
          error, reported, setup_done, i, k, event, xi, offset, idx,
          energy_tel, score_tel, weight_tel, features_img, reco_energy, score,
          reco_event, reco_table, flushed, stop, nFetched>>

startup == <<regressor, classifier>>
locals == <<event, xi, offset, idx, energy_tel, score_tel, weight_tel,
            features_img, reco_energy, score>>
output == <<reco_event, reco_table, flushed>>
ending == <<exit_status, error, reported>>

Init ==
    /\ pc = "l51"
    /\ filenamelist = [bound |-> FALSE, v |-> <<>>]
    /\ regressor = {}
    /\ classifier = {}
    /\ exit_status = -1
    /\ error = "none"
    /\ reported = FALSE
    /\ setup_done = FALSE
    /\ i = 0
    /\ k = 0
    /\ event = NoEvent
    /\ xi = NaN
    /\ offset = NaN
    /\ idx = 0
    /\ energy_tel = <<>>
    /\ score_tel = <<>>
    /\ weight_tel = <<>>
    /\ features_img = [kind |-> "none", v |-> <<>>]
    /\ reco_energy = NaN
    /\ score = NaN
    /\ reco_event = RecoEvent
    /\ reco_table = <<>>
    /\ flushed = 0
    /\ stop = FALSE
    /\ nFetched = 0

\* ---------------------------------------------------------------- lines 51-59
\* lines 51-55 for an infile_list drawn from lists: the list is built and
\* sorted only when infile_list is truthy
Build(lists) ==
    /\ pc = "l51"
    /\ \E infile_list \in lists \ {<<>>} :
       \E g \in Globbed(infile_list) :
          filenamelist' = [bound |-> TRUE, v |-> SortFiles(g)]
    /\ pc' = "l57"
    /\ UNCHANGED <<startup, ending, setup_done, i, k, locals, output, stop, nFetched>>

\* any infile_list
BuildFileList == Build(InfileLists)

\* infile_list names one existing file
BuildSingleFile == Build({<<{f}>> : f \in Files})

\* line 51 false (infile_list empty or not given): filenamelist is never
\* assigned
SkipFileList ==
    /\ pc = "l51"
    /\ pc' = "l57"
    /\ UNCHANGED <<startup, filenamelist, ending, setup_done, i, k, locals, output, stop, nFetched>>

\* line 57 on an unassigned local: UnboundLocalError, uncaught
CheckFilesUnbound ==
    /\ pc = "l57"
    /\ ~filenamelist.bound
    /\ pc' = "crashed"
    /\ error' = "UnboundLocalError"
    /\ exit_status' = 1
    /\ UNCHANGED <<startup, filenamelist, reported, setup_done, i, k, locals, output, stop, nFetched>>

\* lines 57-59: print and exit(-1)
CheckFilesEmpty ==
    /\ pc = "l57"
    /\ filenamelist.bound
    /\ filenamelist.v = <<>>
    /\ reported' = TRUE
    /\ exit_status' = 255
    /\ pc' = "exited"
    /\ UNCHANGED <<startup, filenamelist, error, setup_done, i, k, locals, output, stop, nFetched>>

\* lines 61-133: cutflows, preparer, signal handler, output table; both
\* model banks are loaded for the same camera types, args.cam_ids
Setup ==
    /\ pc = "l57"
    /\ filenamelist.bound
    /\ filenamelist.v # <<>>
    /\ \E cam_ids \in CamIdLists :
          /\ classifier' = cam_ids
          /\ regressor' = cam_ids
    /\ setup_done' = TRUE
    /\ i' = 1
    /\ pc' = "l134"
    /\ UNCHANGED <<filenamelist, ending, k, locals, output, stop, nFetched>>

\* ---------------------------------------------------------------- lines 134-164
\* lines 134-139: the next file is opened
OpenFile ==
    /\ pc = "l134"
    /\ i <= Len(filenamelist.v)
    /\ k' = 0
    /\ pc' = "l142"
    /\ UNCHANGED <<startup, filenamelist, ending, setup_done, i, locals, output, stop, nFetched>>

\* line 134: the list of files is exhausted
FilesDone ==
    /\ pc = "l134"
    /\ i > Len(filenamelist.v)
    /\ pc' = "l255"
    /\ UNCHANGED <<startup, filenamelist, ending, setup_done, i, k, locals, output, stop, nFetched>>

\* lines 142-164: prepare_event yields the next event, its hillas_dict None
\* or drawn from dicts; xi, offset, h_max
Fetch(dicts) ==
    /\ pc = "l142"
    /\ nFetched < MaxEvents
    /\ \E has_hillas \in BOOLEAN :
       \E hillas \in (IF has_hillas THEN dicts ELSE {<<>>}) :
          LET ev == Event(filenamelist.v[i], k + 1, has_hillas, hillas)
          IN /\ event' = ev
             /\ xi' = angular_separation(ev.mc_az, ev.mc_alt, ev.reco_az, ev.reco_alt)
             /\ offset' = angular_separation(ev.run_array_direction[1],
                                             ev.run_array_direction[2],
                                             ev.reco_az, ev.reco_alt)
    /\ k' = k + 1
    /\ nFetched' = nFetched + 1
    /\ pc' = "l166"
    /\ UNCHANGED <<startup, filenamelist, ending, setup_done, i, idx, energy_tel,
                   score_tel, weight_tel, features_img, reco_energy, score,
                   output, stop>>

\* any event
FetchEvent == Fetch(HillasDicts(1))

\* an event seen by every telescope of the subarray with intensity 1
FetchUnitEvent == Fetch({UnitHillas})

\* unit events, then any event as the last one the run reads
FetchUnitThenAny ==
    Fetch(IF nFetched + 1 < MaxEvents THEN {UnitHillas} ELSE HillasDicts(1))

\* line 142: the source of the current file is exhausted
SourceDone ==
    /\ pc = "l142"
    /\ pc' = "l251"
    /\ UNCHANGED <<startup, filenamelist, ending, setup_done, i, k, locals, output, stop, nFetched>>

\* ---------------------------------------------------------------- lines 166-187
\* lines 166-170
BeginEnergy ==
    /\ pc = "l166"
    /\ event.has_hillas
    /\ energy_tel' = Zeros(Len(event.hillas))
    /\ weight_tel' = Zeros(Len(event.hillas))
    /\ idx' = 0
    /\ pc' = "l172"
    /\ UNCHANGED <<startup, filenamelist, ending, setup_done, i, k, event, xi, offset,
                   score_tel, features_img, reco_energy, score, output, stop, nFetched>>

\* lines 238-239: hillas_dict is None
NoHillas ==
    /\ pc = "l166"
    /\ ~event.has_hillas
    /\ reco_event' = [reco_event EXCEPT !.success = FALSE]
    /\ pc' = "l242"
    /\ UNCHANGED <<startup, filenamelist, ending, setup_done, i, k, locals,
                   reco_table, flushed, stop, nFetched>>

\* lines 172-185: one telescope of the energy loop
EnergyLoop ==
    /\ pc = "l172"
    /\ idx < Len(event.hillas)
    /\ LET moments == event.hillas[idx + 1]
           cam_id == CamOf(moments.tel_id)
           f == RegressorFeatures(moments, event.h_max)
       IN /\ cam_id \in regressor
          /\ features_img' = [kind |-> "reg", v |-> f]
          /\ energy_tel' = [energy_tel EXCEPT ![idx + 1] = Predict(cam_id, f)]
          /\ weight_tel' = [weight_tel EXCEPT ![idx + 1] = moments.intensity]
    /\ idx' = idx + 1
    /\ UNCHANGED <<pc, startup, filenamelist, ending, setup_done, i, k, event, xi,
                   offset, score_tel, reco_energy, score, output, stop, nFetched>>

\* line 175: regressor.model_dict has no entry for the camera type
EnergyLoopKeyError ==
    /\ pc = "l172"
    /\ idx < Len(event.hillas)
    /\ CamOf(event.hillas[idx + 1].tel_id) \notin regressor
    /\ pc' = "crashed"
    /\ error' = "KeyError"
    /\ exit_status' = 1
    /\ UNCHANGED <<startup, filenamelist, reported, setup_done, i, k, locals, output,
                   stop, nFetched>>

\* lines 187-191: the fused energy, then the arrays of the score loop
FuseEnergy ==
    /\ pc = "l172"
    /\ idx = Len(event.hillas)
    /\ reco_energy' = Fuse(weight_tel, energy_tel)
    /\ score_tel' = Zeros(Len(event.hillas))
    /\ weight_tel' = Zeros(Len(event.hillas))
    /\ idx' = 0
    /\ pc' = "l193"
    /\ UNCHANGED <<startup, filenamelist, ending, setup_done, i, k, event, xi, offset,
                   energy_tel, features_img, score, output, stop, nFetched>>

\* ---------------------------------------------------------------- lines 193-239
\* (variant of ScoreLoop: the features take the telescope's own estimate)
ScoreLoop_own_estimate ==
    /\ pc = "l193"
    /\ idx < Len(event.hillas)
    /\ LET moments == event.hillas[idx + 1]
           cam_id == CamOf(moments.tel_id)
           f == ClassifierFeatures(Rat(energy_tel[idx + 1]), moments, event.h_max)
       IN /\ cam_id \in classifier
          /\ features_img' = [kind |-> "clf", v |-> f]
          /\ score_tel' = [score_tel EXCEPT ![idx + 1] = DecisionFunction(cam_id, f)]
          /\ weight_tel' = [weight_tel EXCEPT ![idx + 1] = moments.intensity]
    /\ idx' = idx + 1
    /\ UNCHANGED <<pc, startup, filenamelist, ending, setup_done, i, k, event, xi,
                   offset, energy_tel, reco_energy, score, output, stop, nFetched>>

\* lines 193-206: one telescope of the score loop; the lookup of line 196
\* succeeds, the same camera type was found at line 175 under the same keys
ScoreLoop ==
    /\ pc = "l193"
    /\ idx < Len(event.hillas)
    /\ LET moments == event.hillas[idx + 1]
           cam_id == CamOf(moments.tel_id)
           f == ClassifierFeatures(reco_energy, moments, event.h_max)
       IN /\ cam_id \in classifier
          /\ features_img' = [kind |-> "clf", v |-> f]
          /\ score_tel' = [score_tel EXCEPT ![idx + 1] = DecisionFunction(cam_id, f)]
          /\ weight_tel' = [weight_tel EXCEPT ![idx + 1] = moments.intensity]
    /\ idx' = idx + 1
    /\ UNCHANGED <<pc, startup, filenamelist, ending, setup_done, i, k, event, xi,
                   offset, energy_tel, reco_energy, score, output, stop, nFetched>>

\* lines 208-237: the fused score and the fields of a reconstructed event
FillRow ==
    /\ pc = "l193"
    /\ idx = Len(event.hillas)
    /\ score' = Fuse(weight_tel, score_tel)
    /\ reco_event' = [reco_event EXCEPT
          !.NTels_trig = event.tels_with_data,
          !.NTels_reco = Len(event.hillas),
          !.NTels_reco_lst = event.n_tels["LST"],
          !.NTels_reco_mst = event.n_tels["MST"],
          !.NTels_reco_sst = event.n_tels["SST"],
          !.reco_energy = reco_energy,
          !.reco_alt = Rat(event.reco_alt),
          !.reco_az = Rat(event.reco_az),
          !.offset = offset,
          !.xi = xi,
          !.h_max = event.h_max,
          !.reco_core_x = event.reco_core_x,
          !.reco_core_y = event.reco_core_y,
          !.mc_core_x = event.mc_core_x,
          !.mc_core_y = event.mc_core_y,
          !.score = score',
          !.success = TRUE,
          !.ErrEstPos = NaN,
          !.ErrEstDir = NaN]
    /\ pc' = "l242"
    /\ UNCHANGED <<startup, filenamelist, ending, setup_done, i, k, event, xi, offset,
                   idx, energy_tel, score_tel, weight_tel, features_img, reco_energy,
                   reco_table, flushed, stop, nFetched>>

\* ---------------------------------------------------------------- lines 241-255
\* lines 242-244: save basic event infos
SaveBasic ==
    /\ pc = "l242"
    /\ reco_event' = [reco_event EXCEPT
          !.mc_energy = event.mc_energy,
          !.event_id = event.event_id,
          !.obs_id = event.obs_id]
    /\ pc' = "l246"
    /\ UNCHANGED <<startup, filenamelist, ending, setup_done, i, k, locals,
                   reco_table, flushed, stop, nFetched>>

\* line 246: reco_table.flush() writes out the rows appended so far
FlushRow ==
    /\ pc = "l246"
    /\ flushed' = Len(reco_table)
    /\ pc' = "l247"
    /\ UNCHANGED <<startup, filenamelist, ending, setup_done, i, k, locals,
                   reco_event, reco_table, stop, nFetched>>

\* line 247: reco_event.append() copies the row into the table's buffer and
\* restores the column defaults in the row object
AppendRow ==
    /\ pc = "l247"
    /\ reco_table' = Append(reco_table, reco_event)
    /\ reco_event' = RecoEvent
    /\ pc' = "l249"
    /\ UNCHANGED <<startup, filenamelist, ending, setup_done, i, k, locals,
                   flushed, stop, nFetched>>

\* lines 249-250, flag set: break out of the event loop
BreakEvents ==
    /\ pc = "l249"
    /\ stop
    /\ pc' = "l251"
    /\ UNCHANGED <<startup, filenamelist, ending, setup_done, i, k, locals, output, stop, nFetched>>

\* line 249, flag clear: back to the head of the event loop
ContinueEvents ==
    /\ pc = "l249"
    /\ ~stop
    /\ pc' = "l142"
    /\ UNCHANGED <<startup, filenamelist, ending, setup_done, i, k, locals, output, stop, nFetched>>

\* lines 251-252, flag set: break out of the file loop
BreakFiles ==
    /\ pc = "l251"
    /\ stop
    /\ pc' = "l255"
    /\ UNCHANGED <<startup, filenamelist, ending, setup_done, i, k, locals, output, stop, nFetched>>

\* line 251, flag clear: on to the next file
ContinueFiles ==
    /\ pc = "l251"
    /\ ~stop
    /\ i' = i + 1
    /\ pc' = "l134"
    /\ UNCHANGED <<startup, filenamelist, ending, setup_done, k, locals, output, stop, nFetched>>

\* lines 255-266: the final flush, the cutflow report, normal return
FinalFlush ==
    /\ pc = "l255"
    /\ flushed' = Len(reco_table)
    /\ exit_status' = 0
    /\ pc' = "done"
    /\ UNCHANGED <<startup, filenamelist, error, reported, setup_done, i, k, locals,
                   reco_event, reco_table, stop, nFetched>>

\* ---------------------------------------------------------------- SIGINT
Running == pc \in {"l134", "l142", "l166", "l172", "l193", "l242", "l246", "l247",
                   "l249", "l251", "l255"}
Terminated == pc \in {"done", "exited", "crashed"}

\* SignalHandler.__call__: delivered between any two steps of main() once
\* the handler is installed (line 92)
SetStop ==
    /\ Running
    /\ ~stop
    /\ stop' = TRUE
    /\ UNCHANGED <<pc, startup, filenamelist, ending, setup_done, i, k, locals, output, nFetched>>

Next ==
    \/ BuildFileList
    \/ SkipFileList
    \/ CheckFilesUnbound
    \/ CheckFilesEmpty
    \/ Setup
    \/ OpenFile
    \/ FilesDone
    \/ FetchEvent
    \/ SourceDone
    \/ BeginEnergy
    \/ NoHillas
    \/ EnergyLoop
    \/ EnergyLoopKeyError
    \/ FuseEnergy
    \/ ScoreLoop
    \/ FillRow
    \/ SaveBasic
    \/ FlushRow
    \/ AppendRow
    \/ BreakEvents
    \/ ContinueEvents
    \/ BreakFiles
    \/ ContinueFiles
    \/ FinalFlush
    \/ SetStop

Spec == Init /\ [][Next]_vars

\* The loops of lines 134-252 and their exits; every specification has them.
Processing ==
    \/ Setup
    \/ OpenFile
    \/ FilesDone
    \/ SourceDone
    \/ BeginEnergy
    \/ NoHillas
    \/ EnergyLoop
    \/ EnergyLoopKeyError
    \/ FuseEnergy
    \/ ScoreLoop
    \/ FillRow
    \/ SaveBasic
    \/ FlushRow
    \/ AppendRow
    \/ BreakEvents
    \/ ContinueEvents
    \/ BreakFiles
    \/ ContinueFiles
    \/ FinalFlush
    \/ SetStop

\* Runs over any list of files whose events are unit events: the order of
\* the files and of the rows.
NextOrder ==
    \/ BuildFileList
    \/ SkipFileList
    \/ CheckFilesUnbound
    \/ CheckFilesEmpty
    \/ FetchUnitEvent
    \/ Processing

SpecOrder == Init /\ [][NextOrder]_vars

\* Runs over one file whose last event is any event, read after unit
\* events: the fusion of one event, with the traces of earlier events in
\* the locals, the row object and the table.
NextFusion ==
    \/ BuildSingleFile
    \/ FetchUnitThenAny
    \/ Processing

SpecFusion == Init /\ [][NextFusion]_vars

TypeOK ==
    /\ pc \in {"l51", "l57", "done", "exited", "crashed"} \cup
              {"l134", "l142", "l166", "l172", "l193", "l242", "l246", "l247",
               "l249", "l251", "l255"}
    /\ flushed \in 0..Len(reco_table)
    /\ nFetched \in 0..MaxEvents

\* ---------------------------------------------------------------- expected values
\* The per-telescope estimates and the weighted means, written from the
\* event alone (not from the arrays the loops fill).
EnergyOf(ev, j) ==
    Predict(CamOf(ev.hillas[j].tel_id), RegressorFeatures(ev.hillas[j], ev.h_max))

RECURSIVE TotalIntensity(_, _)
TotalIntensity(ev, n) ==
    IF n = 0 THEN 0 ELSE ev.hillas[n].intensity + TotalIntensity(ev, n - 1)

RECURSIVE EnergyNum(_, _)
EnergyNum(ev, n) ==
    IF n = 0 THEN 0
    ELSE EnergyOf(ev, n) * ev.hillas[n].intensity + EnergyNum(ev, n - 1)

RECURSIVE EnergySum(_, _)
EnergySum(ev, n) == IF n = 0 THEN 0 ELSE EnergyOf(ev, n) + EnergySum(ev, n - 1)

ExpectedEnergy(ev) ==
    <<EnergyNum(ev, Len(ev.hillas)), TotalIntensity(ev, Len(ev.hillas))>>

ScoreOf(ev, j) ==
    DecisionFunction(CamOf(ev.hillas[j].tel_id),
                     ClassifierFeatures(ExpectedEnergy(ev), ev.hillas[j], ev.h_max))

RECURSIVE ScoreNum(_, _)
ScoreNum(ev, n) ==
    IF n = 0 THEN 0
    ELSE ScoreOf(ev, n) * ev.hillas[n].intensity + ScoreNum(ev, n - 1)

RECURSIVE ScoreSum(_, _)
ScoreSum(ev, n) == IF n = 0 THEN 0 ELSE ScoreOf(ev, n) + ScoreSum(ev, n - 1)

ExpectedScore(ev) ==
    <<ScoreNum(ev, Len(ev.hillas)), TotalIntensity(ev, Len(ev.hillas))>>

EqualIntensities(ev) ==
    \A a, b \in 1..Len(ev.hillas) : ev.hillas[a].intensity = ev.hillas[b].intensity

Last(s) == s[Len(s)]

\* ---------------------------------------------------------------- claims
\* C1: every event yielded by prepare_event gets exactly one row: at the
\* loop checkpoints (lines 249 and 251) and at the end of the run, however
\* it ends, the number of appended rows equals the number of events read.
C1_OneRowPerEvent ==
    pc \in {"l249", "l251", "l255", "done", "crashed", "exited"}
        => Len(reco_table) = nFetched

\* C2: once the stop flag is set, the event in progress still gets its
\* complete row and the run ends by the final flush, with as many rows in
\* the table, all flushed, as events were read.
C2_StopFinishesCurrentEvent ==
    (stop /\ Terminated) =>
        (pc = "done" /\ Len(reco_table) = nFetched /\ flushed = Len(reco_table))

\* The other half of C2, which holds: from a check that sees the flag
\* on, no event is fetched, no file is opened and no row is appended.
NoWorkAfterObservedStop ==
    [][(stop /\ pc \in {"l249", "l251", "l255"}) =>
            (/\ pc' \in {"l251", "l255", "done"}
             /\ nFetched' = nFetched
             /\ reco_table' = reco_table
             /\ i' = i)]_vars

\* C3: no appended row has success = True together with a reco_energy or a
\* score that is NaN (a zero total weight raises instead of yielding NaN).
C3_NoNaNInSuccessRow ==
    \A p \in 1..Len(reco_table) :
        reco_table[p].success =>
            (~IsNaN(reco_table[p].reco_energy) /\ ~IsNaN(reco_table[p].score))

\* C4: the row appended for an event whose hillas_dict is None has
\* success = False, the identifiers and the truth fields (mc_energy,
\* mc_core_x, mc_core_y) of the event, and every other field at its default.
C4_FailureRowMinimal ==
    (pc = "l249" /\ ~event.has_hillas) =>
        Last(reco_table) = [RecoEvent EXCEPT
                               !.obs_id = event.obs_id,
                               !.event_id = event.event_id,
                               !.mc_energy = event.mc_energy,
                               !.mc_core_x = event.mc_core_x,
                               !.mc_core_y = event.mc_core_y]

\* C5: the files are processed in ascending name order and the rows are in
\* arrival order: of two consecutive rows the later one belongs to a later
\* file, or to the same file and is the next event of its source (or the
\* first event of a second pass over a file listed twice).
C5_RowsInArrivalOrder ==
    /\ filenamelist.bound /\ pc # "l51" => IsSorted(filenamelist.v)
    /\ \A p \in 1..Len(reco_table) :
          /\ \E j \in 1..Len(filenamelist.v) :
                j <= i /\ filenamelist.v[j] = reco_table[p].obs_id
          /\ p = 1 => reco_table[p].event_id = 1
          /\ p > 1 =>
                LET a == reco_table[p - 1]
                    b == reco_table[p]
                IN \/ a.obs_id < b.obs_id /\ b.event_id = 1
                   \/ a.obs_id = b.obs_id /\ b.event_id = a.event_id + 1
                   \/ a.obs_id = b.obs_id /\ b.event_id = 1

C5_Witness ==
    /\ Len(filenamelist.v) >= 2
    /\ Len(reco_table) = 2
    /\ reco_table[1].obs_id = 1
    /\ reco_table[2].obs_id = 2

\* C6: a camera type without a model never aborts the run (the telescope is
\* left out and the event's row is still appended).
C6_MissingModelDoesNotAbort ==
    ~(pc = "crashed" /\ error = "KeyError")

\* C7: at the loop checkpoints (lines 249 and 251) every appended row has
\* been flushed.
C7_FlushedAtCheckpoints ==
    pc \in {"l249", "l251"} => flushed = Len(reco_table)

\* C8: when no input file matches (no glob result, or infile_list empty or
\* not given) the run ends by the report "no files found" and a non-zero
\* exit status, before the setup, before any event and before any row.
C8_NoInputReported ==
    (Terminated /\ (~filenamelist.bound \/ filenamelist.v = <<>>)) =>
        /\ reported
        /\ exit_status \notin {0, -1}
        /\ ~setup_done
        /\ nFetched = 0
        /\ reco_table = <<>>

\* C9: for an event with a non-empty hillas_dict, the reco_energy and the
\* score written into the row are the intensity weighted means of the
\* per-telescope estimates over exactly the telescopes of hillas_dict; with
\* one telescope they equal its estimate, with equal intensities they equal
\* the arithmetic mean.
C9_FusionIsWeightedMean ==
    (pc = "l242" /\ event.has_hillas /\ event.hillas # <<>>) =>
        LET n == Len(event.hillas)
        IN /\ ~IsNaN(reco_event.reco_energy)
           /\ Eq(reco_event.reco_energy, ExpectedEnergy(event))
           /\ Eq(reco_event.score, ExpectedScore(event))
           /\ n = 1 => /\ Eq(reco_event.reco_energy, Rat(EnergyOf(event, 1)))
                       /\ Eq(reco_event.score, Rat(ScoreOf(event, 1)))
           /\ EqualIntensities(event) =>
                 /\ Eq(reco_event.reco_energy, <<EnergySum(event, n), n>>)
                 /\ Eq(reco_event.score, <<ScoreSum(event, n), n>>)

C9_Witness ==
    /\ pc = "l242"
    /\ reco_event.success
    /\ Len(event.hillas) = 2
    /\ event.hillas[1].intensity # event.hillas[2].intensity
    /\ EnergyOf(event, 1) # EnergyOf(event, 2)
    /\ ScoreOf(event, 1) # ScoreOf(event, 2)

\* C10: every step that builds a classification feature vector is taken
\* after the energy loop of the current event has handled all its
\* telescopes and reco_energy holds their fused energy, and the vector's
\* energy entry is the log10 of that fused energy.
C10_ClassifierUsesFusedEnergy ==
    [][(pc = "l193" /\ idx' = idx + 1) =>
          /\ Len(energy_tel) = Len(event.hillas)
          /\ \A j \in 1..Len(event.hillas) : energy_tel[j] = EnergyOf(event, j)
          /\ Eq(reco_energy, ExpectedEnergy(event))
          /\ features_img'.kind = "clf"
          /\ features_img'.v[1][1] = "log10"
          /\ Eq(features_img'.v[1][2], ExpectedEnergy(event))]_vars

C10_Witness ==
    /\ pc = "l193"
    /\ idx = 2
    /\ features_img.kind = "clf"
    /\ EnergyOf(event, 1) # EnergyOf(event, 2)
    /\ Len(reco_table) = 1
    /\ reco_table[1].success
    /\ ~Eq(reco_table[1].reco_energy, reco_energy)

====
